---- MODULE Spec2Model ----
(***************************************************************************)
(* A model of the scl3300 driver: the typestate session (Uninitialized,    *)
(* Normal, PowerDown), the start-up / wake-up / power-down sequences, the  *)
(* off-frame read of single outputs and tuples (Scl3300::read with the     *)
(* OffFrameRead implementations) and the chained Reader.                   *)
(*                                                                         *)
(* Every SPI transaction is one step of the model.  The frame the device   *)
(* answers with (or a transport failure) is the input of the step.         *)
(***************************************************************************)
EXTENDS Integers, Sequences, FiniteSets, TLC

\* The longest tuple handed to read and the longest chain of Reader calls.
MaxOutputs == 2

Modes == {"FullScale12", "FullScale24", "Inclination", "InclinationLowNoise"}

Banks == {"Zero", "One"}

\* The output types that implement OffFrameRead / have a Reader method.
Kinds == {"Acceleration", "Inclination", "Temperature", "SelfTest", "ComponentId",
          "Serial", "Status", "Error1", "Error2"}

(***************************************************************************)
(* Result<T, Error<E>>, and the abort of unreachable!().                   *)
(***************************************************************************)
Ok(v) == [tag |-> "Ok", val |-> v]

Err(e) == [tag |-> "Err", val |-> e]

Panic == [tag |-> "Panic", val |-> "unreachable"]

\* Option<NonZeroU32> and Option<u16>: None is the niche value outside the type.
None == 0 - 1

\* An unwrap_or whose default is no wait at all.
unwrap_or_zero(opt, default) == IF opt = None THEN 0 ELSE opt

unwrap_or(opt, default) == IF opt = None THEN default ELSE opt

(***************************************************************************)
(* frame.rs                                                                *)
(***************************************************************************)
\* Bitwise exclusive or, bit by bit.
RECURSIVE xor_bits(_, _)
xor_bits(a, b) == IF a = 0 THEN b
                  ELSE IF b = 0 THEN a
                  ELSE ((a + b) % 2) + 2 * xor_bits(a \div 2, b \div 2)

XorTable == [a \in 0..255 |-> [b \in 0..255 |-> xor_bits(a, b)]]

\* ^ on u8
xor(a, b) == XorTable[a][b]

\* The inner loop of crc8: n shift steps on the u8 accumulator.
RECURSIVE crc8_shift(_, _)
crc8_shift(crc, n) ==
  IF n = 0 THEN crc
  ELSE crc8_shift(IF crc >= 128 THEN xor((crc * 2) % 256, 29) ELSE (crc * 2) % 256, n - 1)

\* A crc8 that leaves out the final complement.
crc8_no_complement(bytes) ==
  LET c1 == crc8_shift(xor(255, bytes[1]), 8)
      c2 == crc8_shift(xor(c1, bytes[2]), 8)
      c3 == crc8_shift(xor(c2, bytes[3]), 8)
  IN c3

crc8(bytes) ==
  LET c1 == crc8_shift(xor(255, bytes[1]), 8)
      c2 == crc8_shift(xor(c1, bytes[2]), 8)
      c3 == crc8_shift(xor(c2, bytes[3]), 8)
  IN 255 - c3

\* A return_status that looks at the low three bits of byte 0.
return_status_three_bits(frame) ==
  CASE frame[1] % 8 = 0 -> "StartupInProgress"
    [] frame[1] % 8 = 1 -> "NormalOperation"
    [] frame[1] % 8 = 3 -> "Error"
    [] OTHER -> "unreachable"

return_status(frame) ==
  CASE frame[1] % 4 = 0 -> "StartupInProgress"
    [] frame[1] % 4 = 1 -> "NormalOperation"
    [] frame[1] % 4 = 3 -> "Error"
    [] OTHER -> "unreachable"

data(frame) == frame[2] * 256 + frame[3]

(***************************************************************************)
(* operation.rs                                                            *)
(***************************************************************************)
Read(output) == [op |-> "Read", arg |-> output]

ChangeMode(m) == [op |-> "ChangeMode", arg |-> m]

SwitchBank(bank) == [op |-> "SwitchBank", arg |-> bank]

EnableAngleOutputs == [op |-> "EnableAngleOutputs", arg |-> "-"]

OpPowerDown == [op |-> "PowerDown", arg |-> "-"]

OpWakeUp == [op |-> "WakeUp", arg |-> "-"]

Reset == [op |-> "Reset", arg |-> "-"]

\* A to_frame whose constant for Reset ends in 0x99.
to_frame_reset_crc(operation) ==
  CASE operation = Read("AccelerationX")             -> <<\h04, \h00, \h00, \hF7>>
    [] operation = Read("AccelerationY")             -> <<\h08, \h00, \h00, \hFD>>
    [] operation = Read("AccelerationZ")             -> <<\h0C, \h00, \h00, \hFB>>
    [] operation = Read("SelfTest")                  -> <<\h10, \h00, \h00, \hE9>>
    [] operation = EnableAngleOutputs                -> <<\hB0, \h00, \h1F, \h6F>>
    [] operation = Read("AngleX")                    -> <<\h24, \h00, \h00, \hC7>>
    [] operation = Read("AngleY")                    -> <<\h28, \h00, \h00, \hCD>>
    [] operation = Read("AngleZ")                    -> <<\h2C, \h00, \h00, \hCB>>
    [] operation = Read("Temperature")               -> <<\h14, \h00, \h00, \hEF>>
    [] operation = Read("Status")                    -> <<\h18, \h00, \h00, \hE5>>
    [] operation = Read("Error1")                    -> <<\h1C, \h00, \h00, \hE3>>
    [] operation = Read("Error2")                    -> <<\h20, \h00, \h00, \hC1>>
    [] operation = Read("Command")                   -> <<\h34, \h00, \h00, \hDF>>
    [] operation = ChangeMode("FullScale12")         -> <<\hB4, \h00, \h00, \h1F>>
    [] operation = ChangeMode("FullScale24")         -> <<\hB4, \h00, \h01, \h02>>
    [] operation = ChangeMode("Inclination")         -> <<\hB4, \h00, \h02, \h25>>
    [] operation = ChangeMode("InclinationLowNoise") -> <<\hB4, \h00, \h03, \h38>>
    [] operation = OpPowerDown                       -> <<\hB4, \h00, \h04, \h6B>>
    [] operation = OpWakeUp                          -> <<\hB4, \h00, \h00, \h1F>>
    [] operation = Reset                             -> <<\hB4, \h00, \h20, \h99>>
    [] operation = Read("WhoAmI")                    -> <<\h40, \h00, \h00, \h91>>
    [] operation = Read("Serial1")                   -> <<\h64, \h00, \h00, \hA7>>
    [] operation = Read("Serial2")                   -> <<\h68, \h00, \h00, \hAD>>
    [] operation = Read("CurrentBank")               -> <<\h7C, \h00, \h00, \hB3>>
    [] operation = SwitchBank("Zero")                -> <<\hFC, \h00, \h00, \h73>>
    [] operation = SwitchBank("One")                 -> <<\hFC, \h00, \h01, \h6E>>

\* The 32-bit constant of each operation, as its four big-endian bytes.
to_frame(operation) ==
  CASE operation = Read("AccelerationX")             -> <<\h04, \h00, \h00, \hF7>>
    [] operation = Read("AccelerationY")             -> <<\h08, \h00, \h00, \hFD>>
    [] operation = Read("AccelerationZ")             -> <<\h0C, \h00, \h00, \hFB>>
    [] operation = Read("SelfTest")                  -> <<\h10, \h00, \h00, \hE9>>
    [] operation = EnableAngleOutputs                -> <<\hB0, \h00, \h1F, \h6F>>
    [] operation = Read("AngleX")                    -> <<\h24, \h00, \h00, \hC7>>
    [] operation = Read("AngleY")                    -> <<\h28, \h00, \h00, \hCD>>
    [] operation = Read("AngleZ")                    -> <<\h2C, \h00, \h00, \hCB>>
    [] operation = Read("Temperature")               -> <<\h14, \h00, \h00, \hEF>>
    [] operation = Read("Status")                    -> <<\h18, \h00, \h00, \hE5>>
    [] operation = Read("Error1")                    -> <<\h1C, \h00, \h00, \hE3>>
    [] operation = Read("Error2")                    -> <<\h20, \h00, \h00, \hC1>>
    [] operation = Read("Command")                   -> <<\h34, \h00, \h00, \hDF>>
    [] operation = ChangeMode("FullScale12")         -> <<\hB4, \h00, \h00, \h1F>>
    [] operation = ChangeMode("FullScale24")         -> <<\hB4, \h00, \h01, \h02>>
    [] operation = ChangeMode("Inclination")         -> <<\hB4, \h00, \h02, \h25>>
    [] operation = ChangeMode("InclinationLowNoise") -> <<\hB4, \h00, \h03, \h38>>
    [] operation = OpPowerDown                       -> <<\hB4, \h00, \h04, \h6B>>
    [] operation = OpWakeUp                          -> <<\hB4, \h00, \h00, \h1F>>
    [] operation = Reset                             -> <<\hB4, \h00, \h20, \h98>>
    [] operation = Read("WhoAmI")                    -> <<\h40, \h00, \h00, \h91>>
    [] operation = Read("Serial1")                   -> <<\h64, \h00, \h00, \hA7>>
    [] operation = Read("Serial2")                   -> <<\h68, \h00, \h00, \hAD>>
    [] operation = Read("CurrentBank")               -> <<\h7C, \h00, \h00, \hB3>>
    [] operation = SwitchBank("Zero")                -> <<\hFC, \h00, \h00, \h73>>
    [] operation = SwitchBank("One")                 -> <<\hFC, \h00, \h01, \h6E>>

(***************************************************************************)
(* measurement_mode.rs and the wait times of lib.rs                        *)
(***************************************************************************)
T_25_MS == 25000000

T_15_MS == 15000000

T_100_MS == 100000000

\* Settle times with those of the two full-scale modes taken for each other.
start_up_wait_time_ns_swapped(m) ==
  CASE m = "FullScale12" -> T_15_MS
    [] m = "FullScale24" -> T_25_MS
    [] m \in {"Inclination", "InclinationLowNoise"} -> T_100_MS

start_up_wait_time_ns(m) ==
  CASE m = "FullScale12" -> T_25_MS
    [] m = "FullScale24" -> T_15_MS
    [] m \in {"Inclination", "InclinationLowNoise"} -> T_100_MS

MIN_WAIT_TIME_NS == 10000

WAKE_UP_TIME_NS == 1000000

RESET_TIME_NS == 1000000

(***************************************************************************)
(* The transport.  One SPI transaction answers with a frame or fails.      *)
(***************************************************************************)
SpiOk(frame) == [ok |-> TRUE, frame |-> frame]

SpiError == [ok |-> FALSE, frame |-> <<>>]

WithCrc(b) == <<b[1], b[2], b[3], crc8(b)>>

BadCrc(frame) == [frame EXCEPT ![4] = (frame[4] + 1) % 256]

\* The k-th answer of an operation with normal status: payloads differ in both
\* bytes from one transaction to the next, so a value tells which answer it is from.
Payload(k) == <<16 + k, 3 + 5 * k>>

NormalFrame(k) == WithCrc(<<\h19, Payload(k)[1], Payload(k)[2]>>)

StartupFrame == WithCrc(<<\h00, 0, 0>>)

ErrorFrame == WithCrc(<<\h1B, 0, 18>>)

InvalidFrame == WithCrc(<<\h02, 0, 0>>)

\* Everything the k-th transaction of an operation may come back with.
SpiResults(k) ==
  {SpiOk(f) : f \in {NormalFrame(k), StartupFrame, ErrorFrame, InvalidFrame,
                     BadCrc(NormalFrame(k)), BadCrc(StartupFrame), BadCrc(ErrorFrame)}}
    \cup {SpiError}

\* The most transactions one operation issues: wake_up issues 7, a read or a
\* Reader chain at most 4 for each output and the final one.
MostTransactions == IF 4 * MaxOutputs + 1 > 7 THEN 4 * MaxOutputs + 1 ELSE 7

AnswerTable == [k \in 1..MostTransactions |-> SpiResults(k)]

\* crc8 of the first three bytes of every frame of the table, worked out once.
AnswerCrc8 ==
  LET frames == UNION {{r.frame : r \in AnswerTable[k] \ {SpiError}} : k \in 1..MostTransactions}
  IN [b \in {<<f[1], f[2], f[3]>> : f \in frames} |-> crc8(b)]

calculated_crc(bytes) ==
  IF bytes \in DOMAIN AnswerCrc8 THEN AnswerCrc8[bytes] ELSE crc8(bytes)

\* A check_crc that leaves the most significant bit of the CRC out.
check_crc_seven_bits(frame) ==
  IF calculated_crc(<<frame[1], frame[2], frame[3]>>) % 128 = frame[4] % 128
  THEN Ok(<<>>) ELSE Err("Crc")

check_crc(frame) ==
  IF calculated_crc(<<frame[1], frame[2], frame[3]>>) = frame[4] THEN Ok(<<>>) ELSE Err("Crc")

(***************************************************************************)
(* lib.rs: write, transfer, transfer_inner                                 *)
(***************************************************************************)
\* The transaction transfer_inner hands to the transport.
Transaction(operation, wait_us) ==
  [req |-> to_frame(operation), delay |-> unwrap_or(wait_us, MIN_WAIT_TIME_NS)]

transfer_inner(operation, wait_us, r) ==
  IF ~r.ok THEN Err("Spi") ELSE Ok(r.frame)

\* A transfer that leaves out the CRC check.
transfer_no_crc(operation, wait_us, r) ==
  LET res == transfer_inner(operation, wait_us, r)
  IN IF res.tag = "Err" THEN res
     ELSE CASE return_status(res.val) = "StartupInProgress" -> Err("Startup")
            [] return_status(res.val) = "Error" -> Err("ReturnStatus")
            [] return_status(res.val) = "NormalOperation" -> Ok(res.val)
            [] OTHER -> Panic

\* A transfer that leaves out the match on the return status.
transfer_any_status(operation, wait_us, r) ==
  LET res == transfer_inner(operation, wait_us, r)
      crc == check_crc(res.val)
  IN IF res.tag = "Err" THEN res
     ELSE IF crc.tag = "Err" THEN crc
     ELSE Ok(res.val)

\* A transfer that matches on the return status before it checks the CRC.
transfer_status_first(operation, wait_us, r) ==
  LET res == transfer_inner(operation, wait_us, r)
      crc == check_crc(res.val)
  IN IF res.tag = "Err" THEN res
     ELSE CASE return_status(res.val) = "StartupInProgress" -> Err("Startup")
            [] return_status(res.val) = "Error" -> Err("ReturnStatus")
            [] return_status(res.val) = "NormalOperation" ->
                 IF crc.tag = "Err" THEN crc ELSE Ok(res.val)
            [] OTHER -> Panic

transfer(operation, wait_us, r) ==
  LET res == transfer_inner(operation, wait_us, r)
      crc == check_crc(res.val)
  IN IF res.tag = "Err" THEN res
     ELSE IF crc.tag = "Err" THEN crc
     ELSE CASE return_status(res.val) = "StartupInProgress" -> Err("Startup")
            [] return_status(res.val) = "Error" -> Err("ReturnStatus")
            [] return_status(res.val) = "NormalOperation" -> Ok(res.val)
            [] OTHER -> Panic

\* A write that checks the answer as transfer does.
write_checked(operation, wait_us, r) ==
  LET res == transfer(operation, wait_us, r)
  IN IF res.tag = "Ok" THEN Ok(<<>>) ELSE res

write(operation, wait_us, r) ==
  LET res == transfer_inner(operation, wait_us, r)
  IN IF res.tag = "Err" THEN res ELSE Ok(<<>>)

(***************************************************************************)
(* The state                                                               *)
(***************************************************************************)
VARIABLES
  state,          \* the MODE type of the session: Uninitialized, Normal, PowerDown
  mode,           \* Normal { mode }; "-" in the other two states
  spi,            \* where the transport is: in the session, back with the caller, dropped
  previous_mode,  \* the mode of the Normal session that power_down put to sleep
  op,             \* the operation called last
  phase,          \* idle, running (transactions left to issue) or returned
  arg,            \* the mode handed to start_up / wake_up
  pc,             \* the next call of the start-up sequence
  req,            \* the outputs asked for: the tuple of read, the Reader calls so far
  log,            \* the transactions of the operation called last, in order
  result,         \* what the operation called last returned
  device_bank,    \* the bank of the last SwitchBank the device received
  bad_crc_at,     \* the first transaction of the operation answered with a wrong CRC
  bad_status_at,  \* the first one answered with a status other than NormalOperation
  current_bank,   \* the bank the driver tracks: read's local, Reader::bank
  ei,             \* read: the tuple element whose start_read is running
  si,             \* read: the next register request of that start_read
  last_value1,    \* transfer_with_bank: the payload answered to its SwitchBank
  last_value,     \* the last_value the running start_read returns
  vals,           \* the values being built: read's partial outputs, the Reader's destinations
  previous_value, \* Reader::previous_value: the destination still to be filled
  error,          \* Reader::error
  todo,           \* the calls left of the Reader method that is running
  input,          \* the argument of a function of the driver that is applied on its own
  output,         \* what that function returned; "-" before it is applied
  kept            \* a value an earlier read returned, which the caller still holds

session == <<state, mode, spi, previous_mode>>

call == <<op, phase, arg, pc, req, result>>

ghost == <<log, device_bank, bad_crc_at, bad_status_at>>

locals == <<current_bank, ei, si, last_value1, last_value, vals>>

rdr == <<previous_value, error, todo>>

pure == <<input, output>>

vars == <<session, call, ghost, locals, rdr, pure, kept>>

\* A destination of the Reader: (index of the value, field); NoPtr is Option::None.
NoPtr == <<0, "-">>

ResultName(res) == IF res.tag = "Err" THEN res.val ELSE res.tag

(***************************************************************************)
(* The record of the transactions.  The answer to a write is dropped by    *)
(* the driver (write returns unit); the record keeps the answers that the  *)
(* driver looked at, and bad_crc_at / bad_status_at remember the rest.     *)
(***************************************************************************)
Dropped == [ok |-> TRUE, frame |-> <<>>]

Entry(fn, operation, wait_us, r, slot) ==
  [fn        |-> fn,
   operation |-> operation,
   req       |-> Transaction(operation, wait_us).req,
   delay     |-> Transaction(operation, wait_us).delay,
   resp      |-> IF fn = "write" /\ r.ok THEN Dropped ELSE r,
   st        |-> state,
   bank      |-> current_bank,
   dev       |-> device_bank,
   slot      |-> slot]

\* The bank selected on the device after the transaction.  A SwitchBank whose
\* transaction failed in the transport may or may not have reached the device.
DeviceBanksAfter(operation, r) ==
  IF operation.op # "SwitchBank" THEN {device_bank}
  ELSE IF r.ok THEN {operation.arg}
  ELSE {device_bank, operation.arg}

Issue(fn, operation, wait_us, r, slot) ==
  /\ log' = Append(log, Entry(fn, operation, wait_us, r, slot))
  /\ device_bank' \in DeviceBanksAfter(operation, r)
  /\ bad_crc_at' = IF bad_crc_at = 0 /\ r.ok /\ check_crc(r.frame).tag = "Err"
                   THEN Len(log) + 1 ELSE bad_crc_at
  /\ bad_status_at' = IF bad_status_at = 0 /\ r.ok /\ return_status(r.frame) # "NormalOperation"
                      THEN Len(log) + 1 ELSE bad_status_at

\* The answer to the next transaction of the running operation.
Answers == AnswerTable[Len(log) + 1]

\* An operation is called with mode m or outputs v: the record of the
\* transactions starts empty and the locals of the operation before it are gone.
Called(name, m, v) ==
  /\ op' = name
  /\ phase' = "running"
  /\ arg' = m
  /\ pc' = 1
  /\ req' = v
  /\ result' = "None"
  /\ log' = <<>>
  /\ bad_crc_at' = 0
  /\ bad_status_at' = 0
  /\ current_bank' = "Zero"
  /\ ei' = 1
  /\ si' = 1
  /\ last_value1' = None
  /\ last_value' = 0
  /\ vals' = <<>>
  /\ previous_value' = NoPtr
  /\ error' = "Ok"
  /\ todo' = <<>>
  /\ UNCHANGED <<session, device_bank, pure, kept>>

\* No function is being applied on its own.
NoInput == <<>>

\* The caller holds no value of an earlier read.
NoValue == [kind |-> "-"]

\* A new session: Scl3300::new(spi), no operation called yet.
NewSession ==
  /\ state = "Uninitialized"
  /\ mode = "-"
  /\ spi = "session"
  /\ previous_mode = "-"
  /\ op = "-"
  /\ phase = "idle"
  /\ arg = "-"
  /\ pc = 1
  /\ req = <<>>
  /\ log = <<>>
  /\ result = "None"
  /\ device_bank = "Zero"
  /\ bad_crc_at = 0
  /\ bad_status_at = 0
  /\ current_bank = "Zero"
  /\ ei = 1
  /\ si = 1
  /\ last_value1 = None
  /\ last_value = 0
  /\ vals = <<>>
  /\ previous_value = NoPtr
  /\ error = "Ok"
  /\ todo = <<>>
  /\ kept = NoValue

Init ==
  /\ NewSession
  /\ input = NoInput
  /\ output = "-"

(***************************************************************************)
(* lib.rs: start_up, wake_up, power_down, release                          *)
(***************************************************************************)
Step(fn, operation, wait_us) == [fn |-> fn, operation |-> operation, wait_us |-> wait_us]

\* A start-up sequence with one Status read fewer.
start_up_inner_two_reads(m) ==
  << Step("write", Reset, RESET_TIME_NS),
     Step("write", ChangeMode(m), None),
     Step("write", EnableAngleOutputs, start_up_wait_time_ns(m)),
     Step("write", Read("Status"), None),
     Step("transfer", Read("Status"), None) >>

\* The calls of start_up_inner, in order.
start_up_inner(m) ==
  << Step("write", Reset, RESET_TIME_NS),
     Step("write", ChangeMode(m), None),
     Step("write", EnableAngleOutputs, start_up_wait_time_ns(m)),
     Step("write", Read("Status"), None),
     Step("write", Read("Status"), None),
     Step("transfer", Read("Status"), None) >>

\* A wake_up that gives the chip the minimum wait only.
wake_up_no_wait(m) == <<Step("write", OpWakeUp, None)>> \o start_up_inner(m)

\* The calls of wake_up, in order.
wake_up(m) == <<Step("write", OpWakeUp, WAKE_UP_TIME_NS)>> \o start_up_inner(m)

CallResult(step, r) ==
  IF step.fn = "write" THEN write(step.operation, step.wait_us, r)
  ELSE transfer(step.operation, step.wait_us, r)

\* A sequence that sends the request again when its call failed.
RunCall_retry(program, r) ==
  LET step == program[pc]
      res  == CallResult(step, r)
  IN /\ Issue(step.fn, step.operation, step.wait_us, r, NoPtr)
     /\ IF res.tag = "Ok" /\ pc < Len(program)
        THEN /\ pc' = pc + 1
             /\ UNCHANGED <<session, phase, result>>
        ELSE IF res.tag = "Ok"
        THEN /\ state' = "Normal"
             /\ mode' = arg
             /\ phase' = "returned"
             /\ result' = "Ok"
             /\ UNCHANGED <<spi, previous_mode, pc>>
        ELSE UNCHANGED <<session, phase, result, pc>>
     /\ UNCHANGED <<pure, kept, op, arg, req, locals, rdr>>

\* One call of a sequence that consumes the session: `?` ends it on the first
\* error and the session is gone with it; after the last call the session is Normal.
RunCall(program, r) ==
  LET step == program[pc]
      res  == CallResult(step, r)
  IN /\ Issue(step.fn, step.operation, step.wait_us, r, NoPtr)
     /\ IF res.tag = "Ok" /\ pc < Len(program)
        THEN /\ pc' = pc + 1
             /\ UNCHANGED <<session, phase, result>>
        ELSE IF res.tag = "Ok"
        THEN /\ state' = "Normal"
             /\ mode' = arg
             /\ phase' = "returned"
             /\ result' = "Ok"
             /\ UNCHANGED <<spi, previous_mode, pc>>
        ELSE /\ spi' = "dropped"
             /\ phase' = "returned"
             /\ result' = ResultName(res)
             /\ UNCHANGED <<state, mode, previous_mode, pc>>
     /\ UNCHANGED <<pure, kept, op, arg, req, locals, rdr>>

StartUp(m) ==
  /\ spi = "session" /\ phase = "idle"
  /\ state = "Uninitialized"
  /\ Called("start_up", m, <<>>)

StartUpCall ==
  /\ phase = "running" /\ op = "start_up"
  /\ \E r \in Answers : RunCall(start_up_inner(arg), r)

WakeUp(m) ==
  /\ spi = "session" /\ phase = "idle"
  /\ state = "PowerDown"
  /\ Called("wake_up", m, <<>>)

WakeUpCall ==
  /\ phase = "running" /\ op = "wake_up"
  /\ \E r \in Answers : RunCall(wake_up(arg), r)

PowerDown ==
  /\ spi = "session" /\ phase = "idle"
  /\ state = "Normal"
  /\ Called("power_down", "-", <<>>)

\* A power_down that sends its frame with write.
PowerDownCall_write ==
  /\ phase = "running" /\ op = "power_down"
  /\ \E r \in Answers :
     LET res == write(OpPowerDown, None, r)
     IN /\ Issue("write", OpPowerDown, None, r, NoPtr)
        /\ phase' = "returned"
        /\ result' = ResultName(res)
        /\ IF res.tag = "Ok"
           THEN /\ state' = "PowerDown"
                /\ mode' = "-"
                /\ previous_mode' = mode
                /\ UNCHANGED spi
           ELSE /\ spi' = "dropped"
                /\ UNCHANGED <<state, mode, previous_mode>>
  /\ UNCHANGED <<pure, kept, op, arg, pc, req, locals, rdr>>

\* The one transfer of power_down; the session is consumed either way.
PowerDownCall ==
  /\ phase = "running" /\ op = "power_down"
  /\ \E r \in Answers :
     LET res == transfer(OpPowerDown, None, r)
     IN /\ Issue("transfer", OpPowerDown, None, r, NoPtr)
        /\ phase' = "returned"
        /\ result' = ResultName(res)
        /\ IF res.tag = "Ok"
           THEN /\ state' = "PowerDown"
                /\ mode' = "-"
                /\ previous_mode' = mode
                /\ UNCHANGED spi
           ELSE /\ spi' = "dropped"
                /\ UNCHANGED <<state, mode, previous_mode>>
  /\ UNCHANGED <<pure, kept, op, arg, pc, req, locals, rdr>>

\* A release that only a Normal session has.
Release_normal_only ==
  /\ spi = "session" /\ phase = "idle"
  /\ state = "Normal"
  /\ spi' = "caller"
  /\ op' = "release"
  /\ UNCHANGED <<state, mode, previous_mode, phase, arg, pc, req, result, ghost, locals, rdr, pure, kept>>

Release ==
  /\ spi = "session" /\ phase = "idle"
  /\ spi' = "caller"
  /\ op' = "release"
  /\ UNCHANGED <<state, mode, previous_mode, phase, arg, pc, req, result, ghost, locals, rdr, pure, kept>>

\* The caller has looked at what the operation returned and goes on: nothing
\* of the operation is left but the session (if it still has one).
Continue ==
  /\ phase = "returned"
  /\ phase' = "idle"
  /\ op' = "-"
  /\ arg' = "-"
  /\ pc' = 1
  /\ req' = <<>>
  /\ result' = "None"
  /\ log' = <<>>
  /\ bad_crc_at' = 0
  /\ bad_status_at' = 0
  /\ current_bank' = "Zero"
  /\ ei' = 1
  /\ si' = 1
  /\ last_value1' = None
  /\ last_value' = 0
  /\ vals' = <<>>
  /\ previous_value' = NoPtr
  /\ error' = "Ok"
  /\ todo' = <<>>
  \* previous_mode is kept while the session sleeps and forgotten once it woke up
  /\ previous_mode' = IF state = "PowerDown" THEN previous_mode ELSE "-"
  /\ UNCHANGED <<state, mode, spi, device_bank, pure, kept>>

(***************************************************************************)
(* off_frame_read.rs: the OffFrameRead implementations                     *)
(***************************************************************************)
Request(bank, out, dest) == [bank |-> bank, out |-> out, dest |-> dest]

\* The register requests of start_read, in order.  bank is the required_bank
\* handed to transfer_with_bank, "-" where start_read calls scl.transfer itself;
\* dest is where the payload answered to the request goes.
start_read(kind) ==
  CASE kind = "Acceleration" -> << Request("-", "AccelerationX", "last_value"),
                                   Request("-", "AccelerationY", "x"),
                                   Request("-", "AccelerationZ", "y") >>
    [] kind = "Inclination"  -> << Request("Zero", "AngleX", "last_value"),
                                   Request("-", "AngleY", "x"),
                                   Request("-", "AngleZ", "y") >>
    [] kind = "Temperature"  -> << Request("-", "Temperature", "last_value") >>
    [] kind = "SelfTest"     -> << Request("-", "SelfTest", "last_value") >>
    [] kind = "ComponentId"  -> << Request("Zero", "WhoAmI", "last_value") >>
    [] kind = "Serial"       -> << Request("One", "Serial1", "last_value"),
                                   Request("-", "Serial2", "part1") >>
    [] kind = "Status"       -> << Request("Zero", "Status", "last_value") >>
    [] kind = "Error1"       -> << Request("Zero", "Error1", "last_value") >>
    [] kind = "Error2"       -> << Request("Zero", "Error2", "last_value") >>

\* A start_read that builds its value with MeasurementMode::default().
new_value_default_mode(kind, m) ==
  CASE kind = "Acceleration" -> [kind |-> kind, x |-> 0, y |-> 0, z |-> 0, mode |-> "FullScale12"]
    [] kind = "Inclination"  -> [kind |-> kind, x |-> 0, y |-> 0, z |-> 0]
    [] kind = "Temperature"  -> [kind |-> kind, temp |-> 0]
    [] kind = "SelfTest"     -> [kind |-> kind, sto |-> 0, mode |-> "FullScale12"]
    [] kind = "ComponentId"  -> [kind |-> kind, id |-> 0]
    [] kind = "Serial"       -> [kind |-> kind, part1 |-> 0, part2 |-> 0]
    [] kind \in {"Status", "Error1", "Error2"} -> [kind |-> kind, bits |-> 0]

\* The value start_read builds before its first transaction.
new_value(kind, m) ==
  CASE kind = "Acceleration" -> [kind |-> kind, x |-> 0, y |-> 0, z |-> 0, mode |-> m]
    [] kind = "Inclination"  -> [kind |-> kind, x |-> 0, y |-> 0, z |-> 0]
    [] kind = "Temperature"  -> [kind |-> kind, temp |-> 0]
    [] kind = "SelfTest"     -> [kind |-> kind, sto |-> 0, mode |-> m]
    [] kind = "ComponentId"  -> [kind |-> kind, id |-> 0]
    [] kind = "Serial"       -> [kind |-> kind, part1 |-> 0, part2 |-> 0]
    [] kind \in {"Status", "Error1", "Error2"} -> [kind |-> kind, bits |-> 0]

\* u16::to_be_bytes()[1]
low_byte(v) == v % 256

\* A finish_read that leaves the value as start_read returned it.
finish_read_dropped(value, lv) == value

finish_read(value, lv) ==
  CASE value.kind = "Acceleration" -> [value EXCEPT !.z = lv]
    [] value.kind = "Inclination"  -> [value EXCEPT !.z = lv]
    [] value.kind = "Temperature"  -> [value EXCEPT !.temp = lv]
    [] value.kind = "SelfTest"     -> [value EXCEPT !.sto = lv]
    [] value.kind = "ComponentId"  -> [value EXCEPT !.id = low_byte(lv)]
    [] value.kind = "Serial"       -> [value EXCEPT !.part2 = lv]
    [] value.kind \in {"Status", "Error1", "Error2"} -> [value EXCEPT !.bits = lv]

\* The field a register's payload belongs in.
SlotOf(out) ==
  CASE out \in {"AccelerationX", "AngleX"} -> "x"
    [] out \in {"AccelerationY", "AngleY"} -> "y"
    [] out \in {"AccelerationZ", "AngleZ"} -> "z"
    [] out = "Temperature" -> "temp"
    [] out = "SelfTest" -> "sto"
    [] out = "WhoAmI" -> "id"
    [] out = "Serial1" -> "part1"
    [] out = "Serial2" -> "part2"
    [] out \in {"Status", "Error1", "Error2"} -> "bits"

\* A transfer_with_bank that returns the payload answered to the register request.
transfer_with_bank_last(lv1, lv2) == lv2

\* What transfer_with_bank returns: last_value1.unwrap_or(last_value2).
transfer_with_bank(lv1, lv2) == unwrap_or(lv1, lv2)

(***************************************************************************)
(* lib.rs: read                                                            *)
(***************************************************************************)
\* The tuples read can be asked for.
Tuples == UNION {[1..n -> Kinds] : n \in 1..MaxOutputs}

\* A failure that takes the session back to where it began.
Failed_reset(res) ==
  /\ phase' = "returned"
  /\ result' = ResultName(res)
  /\ spi' = IF res.tag = "Panic" THEN "dropped" ELSE spi
  /\ state' = "Uninitialized"
  /\ mode' = "-"
  /\ UNCHANGED previous_mode

\* A transaction of read or of the Reader failed: the error is returned, the
\* session stays with the caller; unreachable!() takes the program down.
Failed(res) ==
  /\ phase' = "returned"
  /\ result' = ResultName(res)
  /\ spi' = IF res.tag = "Panic" THEN "dropped" ELSE spi
  /\ UNCHANGED <<state, mode, previous_mode>>

\* A read that any session accepts.
ReadCalled_any_state(v) ==
  /\ spi = "session" /\ phase = "idle"
  /\ Called("read", "-", v)

ReadCalled(v) ==
  /\ spi = "session" /\ phase = "idle"
  /\ state = "Normal"
  /\ Called("read", "-", v)

\* A transfer_with_bank that never switches.
NeedsSwitch_never(request) == FALSE

\* A transfer_with_bank that switches to bank One only.
NeedsSwitch_to_one(request) == request.bank = "One" /\ current_bank # "One"

\* transfer_with_bank: the bank differs from the required one, SwitchBank goes first.
NeedsSwitch(request) == request.bank # "-" /\ current_bank # request.bank

ReadSwitchBankAnswered(r) ==
  /\ phase = "running" /\ op = "read" /\ ei <= Len(req)
  /\ NeedsSwitch(start_read(req[ei])[si])
  /\ LET request == start_read(req[ei])[si]
         res     == transfer(SwitchBank(request.bank), None, r)
     IN /\ Issue("transfer", SwitchBank(request.bank), None, r, NoPtr)
        /\ IF res.tag = "Ok"
           THEN /\ last_value1' = data(res.val)
                /\ current_bank' = request.bank
                /\ UNCHANGED <<session, phase, result, vals>>
           ELSE /\ Failed(res)
                /\ vals' = <<>>
                /\ UNCHANGED <<last_value1, current_bank>>
  /\ UNCHANGED <<pure, kept, op, arg, pc, req, ei, si, last_value, rdr>>

\* The SwitchBank transfer of transfer_with_bank, answered by the device.
ReadSwitchBank == \E r \in Answers : ReadSwitchBankAnswered(r)

ReadRegisterAnswered(r) ==
  /\ phase = "running" /\ op = "read" /\ ei <= Len(req)
  /\ ~NeedsSwitch(start_read(req[ei])[si])
  /\ LET kind    == req[ei]
         request == start_read(kind)[si]
         res     == transfer(Read(request.out), None, r)
         value   == IF request.bank = "-" THEN data(res.val)
                    ELSE transfer_with_bank(last_value1, data(res.val))
         lv      == IF request.dest = "last_value" THEN value ELSE last_value
         started == IF si = 1 THEN Append(vals, new_value(kind, mode)) ELSE vals
         stored  == IF request.dest = "last_value" THEN started
                    ELSE [started EXCEPT ![ei][request.dest] = value]
         \* the tuple macro: previous.finish_read(last_value) once start_read returned
         chained == IF ei > 1 THEN [stored EXCEPT ![ei - 1] = finish_read(@, lv)] ELSE stored
     IN /\ Issue("transfer", Read(request.out), None, r, <<ei, SlotOf(request.out)>>)
        /\ IF res.tag = "Ok"
           THEN /\ last_value' = lv
                /\ last_value1' = None
                /\ IF si < Len(start_read(kind))
                   THEN /\ si' = si + 1
                        /\ vals' = stored
                        /\ UNCHANGED ei
                   ELSE /\ si' = 1
                        /\ ei' = ei + 1
                        /\ vals' = chained
                /\ UNCHANGED <<session, phase, result>>
           ELSE /\ Failed(res)
                /\ vals' = <<>>
                /\ UNCHANGED <<last_value, last_value1, ei, si>>
  /\ UNCHANGED <<pure, kept, op, arg, pc, req, current_bank, rdr>>

\* The transfer of a register request, answered by the device.
ReadRegister == \E r \in Answers : ReadRegisterAnswered(r)

\* A read of Status as the extra transfer.
FinalOperation_dummy == Read("Status")

\* An extra transfer chosen by the payload read last.
FinalOperation_by_value == IF last_value >= 32768 THEN Read("Status") ELSE SwitchBank("Zero")

\* The operation of the extra transfer that ends a read sequence.
FinalOperation == SwitchBank("Zero")

\* The transfer of SwitchBank(Zero) that ends read, and partial.finish_read.
ReadFinishAnswered(r) ==
  /\ phase = "running" /\ op = "read" /\ ei = Len(req) + 1
  /\ LET res == transfer(FinalOperation, None, r)
     IN /\ Issue("transfer", FinalOperation, None, r, NoPtr)
        /\ IF res.tag = "Ok"
           THEN /\ vals' = [vals EXCEPT ![Len(vals)] = finish_read(@, data(res.val))]
                /\ phase' = "returned"
                /\ result' = "Ok"
                /\ UNCHANGED session
           ELSE /\ Failed(res)
                /\ vals' = <<>>
  /\ UNCHANGED <<pure, kept, op, arg, pc, req, current_bank, ei, si, last_value1, last_value, rdr>>

\* The last transfer of read, answered by the device.
ReadFinish == \E r \in Answers : ReadFinishAnswered(r)

(***************************************************************************)
(* reader.rs: the chained Reader                                           *)
(***************************************************************************)
\* What a destination holds before the Reader writes to it.
Unwritten == 0 - 2

\* The destination the caller hands to a Reader method: a value of the method's type.
Destination(kind) ==
  CASE kind = "Acceleration" -> [kind |-> kind, x |-> Unwritten, y |-> Unwritten,
                                 z |-> Unwritten, mode |-> "-"]
    [] kind = "Inclination"  -> [kind |-> kind, x |-> Unwritten, y |-> Unwritten, z |-> Unwritten]
    [] kind = "Temperature"  -> [kind |-> kind, temp |-> Unwritten]
    [] kind = "SelfTest"     -> [kind |-> kind, sto |-> Unwritten, mode |-> "-"]
    [] kind = "ComponentId"  -> [kind |-> kind, id |-> Unwritten]
    [] kind = "Serial"       -> [kind |-> kind, part1 |-> Unwritten, part2 |-> Unwritten]
    [] kind \in {"Status", "Error1", "Error2"} -> [kind |-> kind, bits |-> Unwritten]

\* acceleration and self_test set the mode of their destination before they read.
Prepared(dest, m) ==
  IF dest.kind \in {"Acceleration", "SelfTest"} THEN [dest EXCEPT !.mode = m] ELSE dest

switch_to_bank(bank) == [fn |-> "switch_to_bank", bank |-> bank, out |-> "-", value |-> NoPtr]

read(out, value) == [fn |-> "read", bank |-> "-", out |-> out, value |-> value]

\* The calls each method of the Reader chains; d is the index of its destination.
Method(kind, d) ==
  CASE kind = "Acceleration" -> << read("AccelerationX", <<d, "x">>),
                                   read("AccelerationY", <<d, "y">>),
                                   read("AccelerationZ", <<d, "z">>) >>
    [] kind = "Inclination"  -> << switch_to_bank("Zero"),
                                   read("AngleX", <<d, "x">>),
                                   read("AngleY", <<d, "y">>),
                                   read("AngleZ", <<d, "z">>) >>
    [] kind = "Temperature"  -> << read("Temperature", <<d, "temp">>) >>
    [] kind = "SelfTest"     -> << read("SelfTest", <<d, "sto">>) >>
    [] kind = "ComponentId"  -> << switch_to_bank("Zero"), read("WhoAmI", <<d, "id">>) >>
    [] kind = "Serial"       -> << switch_to_bank("One"),
                                   read("Serial1", <<d, "part1">>),
                                   read("Serial2", <<d, "part2">>) >>
    [] kind = "Status"       -> << switch_to_bank("Zero"), read("Status", <<d, "bits">>) >>
    [] kind = "Error1"       -> << switch_to_bank("Zero"), read("Error1", <<d, "bits">>) >>
    [] kind = "Error2"       -> << switch_to_bank("Zero"), read("Error2", <<d, "bits">>) >>

\* The match of Reader::transfer: what goes into the destination of an OutputVal.
OutputVal(ptr, payload) == IF ptr[2] = "id" THEN low_byte(payload) ELSE payload

\* Reader::transfer once scl.transfer returned Ok(frame): previous_value.take()
\* and the write through it.
Filled(frame) ==
  IF previous_value = NoPtr THEN vals
  ELSE [vals EXCEPT ![previous_value[1]][previous_value[2]] =
                       OutputVal(previous_value, data(frame))]

\* Reader::new
ReaderNew ==
  /\ spi = "session" /\ phase = "idle"
  /\ state = "Normal"
  /\ Called("reader", "-", <<>>)

\* The caller chains a method: acceleration, inclination, ..., error2.  With an
\* error recorded none of its calls issues a transaction: switch_to_bank returns
\* the Reader as it is and each read only replaces previous_value.
ReaderMethod(kind) ==
  /\ phase = "running" /\ op = "reader" /\ todo = <<>>
  /\ Len(req) < MaxOutputs
  /\ req' = Append(req, kind)
  /\ vals' = Append(vals, Prepared(Destination(kind), mode))
  /\ LET calls == Method(kind, Len(vals) + 1)
     IN IF error = "Ok"
        THEN /\ todo' = calls
             /\ UNCHANGED previous_value
        ELSE /\ todo' = <<>>
             /\ previous_value' = calls[Len(calls)].value
  /\ UNCHANGED <<pure, kept, session, op, phase, arg, pc, result, ghost,
                 current_bank, ei, si, last_value1, last_value, error>>

\* Reader::transfer(operation), called with the value the caller of it stores
\* in previous_value afterwards (keep: `previous_value` is left as transfer left it).
ReaderTransfer(operation, slot, keep, next_value, r) ==
  LET res == transfer(operation, None, r)
  IN /\ Issue("transfer", operation, None, r, slot)
     /\ IF res.tag = "Ok"
        THEN /\ vals' = Filled(res.val)
             /\ previous_value' = IF keep THEN NoPtr ELSE next_value
             /\ current_bank' = IF operation.op = "SwitchBank" THEN operation.arg
                                ELSE current_bank
             /\ UNCHANGED <<session, phase, result, error>>
        ELSE IF res.tag = "Err"
        THEN /\ error' = res.val
             /\ previous_value' = IF keep THEN previous_value ELSE next_value
             /\ UNCHANGED <<session, phase, result, current_bank, vals>>
        ELSE /\ Failed(res)
             /\ UNCHANGED <<current_bank, vals, previous_value, error>>

\* Reader::switch_to_bank
ReaderSwitchToBank ==
  /\ phase = "running" /\ op = "reader" /\ todo # <<>>
  /\ Head(todo).fn = "switch_to_bank"
  /\ todo' = Tail(todo)
  /\ IF current_bank = Head(todo).bank \/ error # "Ok"
     THEN UNCHANGED <<session, phase, result, ghost, current_bank, vals,
                      previous_value, error>>
     ELSE \E r \in Answers :
            ReaderTransfer(SwitchBank(Head(todo).bank), NoPtr, TRUE, NoPtr, r)
  /\ UNCHANGED <<pure, kept, op, arg, pc, req, ei, si, last_value1, last_value>>

\* A Reader::read that goes on reading with an error recorded.
ReaderRead_after_error ==
  /\ phase = "running" /\ op = "reader" /\ todo # <<>>
  /\ Head(todo).fn = "read"
  /\ todo' = Tail(todo)
  /\ \E r \in Answers :
       ReaderTransfer(Read(Head(todo).out), Head(todo).value, FALSE, Head(todo).value, r)
  /\ UNCHANGED <<pure, kept, op, arg, pc, req, ei, si, last_value1, last_value>>

\* Reader::read
ReaderRead ==
  /\ phase = "running" /\ op = "reader" /\ todo # <<>>
  /\ Head(todo).fn = "read"
  /\ todo' = Tail(todo)
  /\ IF error # "Ok"
     THEN /\ previous_value' = Head(todo).value
          /\ UNCHANGED <<session, phase, result, ghost, current_bank, vals, error>>
     ELSE \E r \in Answers :
            ReaderTransfer(Read(Head(todo).out), Head(todo).value, FALSE, Head(todo).value, r)
  /\ UNCHANGED <<pure, kept, op, arg, pc, req, ei, si, last_value1, last_value>>

\* Reader::finish
ReaderFinish ==
  /\ phase = "running" /\ op = "reader" /\ todo = <<>>
  /\ IF error # "Ok"
     THEN /\ phase' = "returned"
          /\ result' = error
          /\ UNCHANGED <<session, ghost, vals, previous_value>>
     ELSE IF previous_value = NoPtr
     THEN /\ phase' = "returned"
          /\ result' = "Ok"
          /\ UNCHANGED <<session, ghost, vals, previous_value>>
     ELSE \E r \in Answers :
            LET res == transfer(FinalOperation, None, r)
            IN /\ Issue("transfer", FinalOperation, None, r, NoPtr)
               /\ IF res.tag = "Ok"
                  THEN /\ vals' = Filled(res.val)
                       /\ previous_value' = NoPtr
                       /\ phase' = "returned"
                       /\ result' = "Ok"
                       /\ UNCHANGED session
                  ELSE /\ Failed(res)
                       /\ UNCHANGED <<vals, previous_value>>
  /\ UNCHANGED <<pure, kept, op, arg, pc, req, current_bank, ei, si, last_value1, last_value,
                 error, todo>>

(***************************************************************************)
(* The specification                                                       *)
(***************************************************************************)
Next ==
  \/ \E m \in Modes : StartUp(m)
  \/ StartUpCall
  \/ \E m \in Modes : WakeUp(m)
  \/ WakeUpCall
  \/ PowerDown
  \/ PowerDownCall
  \/ Release
  \/ Continue
  \/ \E v \in Tuples : ReadCalled(v)
  \/ ReadSwitchBank
  \/ ReadRegister
  \/ ReadFinish
  \/ ReaderNew
  \/ \E kind \in Kinds : ReaderMethod(kind)
  \/ ReaderSwitchToBank
  \/ ReaderRead
  \/ ReaderFinish

Spec == Init /\ [][Next]_vars

(***************************************************************************)
(* The reads of the values that carry a mode, with a caller that holds on  *)
(* to a value while the session is put to sleep and woken up again.        *)
(***************************************************************************)
\* The outputs whose value has a mode field.
ModeKinds == {"Acceleration", "SelfTest"}

\* The tuples of such outputs.
ModeTuples == {v \in Tuples : \A i \in 1..Len(v) : v[i] \in ModeKinds}

\* read returned Ok(values) and the caller holds on to the first of them; the
\* value is the caller's own (Acceleration and SelfTest hold
\* `mode: MeasurementMode`, a copy).
Keep ==
  /\ phase = "returned" /\ op = "read" /\ result = "Ok"
  /\ kept # vals[1]
  /\ kept' = vals[1]
  /\ UNCHANGED <<session, call, ghost, locals, rdr, pure>>

CaptureNext ==
  \/ \E m \in Modes : StartUp(m)
  \/ StartUpCall
  \/ \E m \in Modes : WakeUp(m)
  \/ WakeUpCall
  \/ PowerDown
  \/ PowerDownCall
  \/ Continue
  \/ \E v \in ModeTuples : ReadCalled(v)
  \/ ReadRegister
  \/ ReadFinish
  \/ Keep

CaptureSpec == Init /\ [][CaptureNext]_vars

(***************************************************************************)
(* The read sequence with the registers of the device holding other values: *)
(* every transaction of a read is answered with one of several payloads.    *)
(***************************************************************************)
\* A payload with the sign bit set (0xFFE9, the angle of the crate's example).
HighPayload == <<\hFF, \hE9>>

HighFrame == WithCrc(<<\h19, HighPayload[1], HighPayload[2]>>)

\* The answers to the k-th transaction of a read: a valid frame with one of two
\* payloads, or a failed transport.
PayloadAnswers == {SpiOk(NormalFrame(Len(log) + 1)), SpiOk(HighFrame), SpiError}

PayloadNext ==
  \/ \E m \in Modes : StartUp(m)
  \/ StartUpCall
  \/ Continue
  \/ \E v \in Tuples : ReadCalled(v)
  \/ \E r \in PayloadAnswers : ReadSwitchBankAnswered(r)
  \/ \E r \in PayloadAnswers : ReadRegisterAnswered(r)
  \/ \E r \in PayloadAnswers : ReadFinishAnswered(r)

PayloadSpec == Init /\ [][PayloadNext]_vars

(***************************************************************************)
(* frame.rs: check_crc applied to a frame on its own                       *)
(***************************************************************************)
\* The first three bytes of the frames check_crc is applied to: those of the
\* examples of tests::test_crc8 and a few more.
CrcPrefixes ==
  { <<183, 0, 2>>, <<25, 0, 18>>, <<25, 0, 0>>, <<27, 0, 18>>, <<24, 0, 0>>, <<183, 0, 0>>,
    <<0, 0, 0>>, <<255, 255, 255>>, <<1, 2, 3>>, <<128, 64, 32>>, <<3, 0, 0>>, <<90, 165, 60>> }

\* Every frame with one of these prefixes: each byte 3, so the right CRC and
\* the 255 wrong ones.
CrcFrames == {<<b[1], b[2], b[3], c>> : b \in CrcPrefixes, c \in 0..255}

CrcInit ==
  /\ NewSession
  /\ input \in CrcFrames
  /\ output = "-"

\* frame.check_crc()
CheckCrc ==
  /\ output = "-"
  /\ input # NoInput
  /\ output' = ResultName(check_crc(input))
  /\ UNCHANGED <<input, kept, session, call, ghost, locals, rdr>>

CrcNext == CheckCrc

CrcSpec == CrcInit /\ [][CrcNext]_vars

(***************************************************************************)
(* frame.rs, operation.rs: crc8, check_crc, return_status, data and        *)
(* to_frame applied on their own                                           *)
(***************************************************************************)
\* No function has been applied yet.
NotApplied == [fn |-> "-"]

\* The function that is applied, and its argument.
Apply(name, a) == [fn |-> name, arg |-> a]

\* The 3-byte arrays crc8 is applied to.
Crc8Inputs ==
  {<<a, b, c>> : a \in {0, 1, 25, 128, 183, 255}, b \in {0, 90, 255},
                 c \in {0, 1, 2, 18, 165, 255}}

\* Bit i of a frame inverted; bit 0 is the most significant bit of byte 0 and
\* bit 31 the least significant bit of byte 3.
flip_bit(frame, i) == [frame EXCEPT ![(i \div 8) + 1] = xor(@, 2 ^ (7 - (i % 8)))]

\* Frame { bytes: [b0, b1, b2, crc8([b0, b1, b2])] }.check_crc()
Crc8 ==
  /\ input.fn = "crc8" /\ output = NotApplied
  /\ LET frame == <<input.arg[1], input.arg[2], input.arg[3], crc8(input.arg)>>
     IN output' = [fn |-> "crc8", frame |-> frame, flipped |-> None,
                   check |-> ResultName(check_crc(frame))]
  /\ UNCHANGED <<input, kept, session, call, ghost, locals, rdr>>

\* check_crc of that frame with bit i inverted
CheckFlipped(i) ==
  /\ output.fn = "crc8" /\ output.flipped = None
  /\ LET frame == flip_bit(output.frame, i)
     IN output' = [fn |-> "crc8", frame |-> frame, flipped |-> i,
                   check |-> ResultName(check_crc(frame))]
  /\ UNCHANGED <<input, kept, session, call, ghost, locals, rdr>>

\* enum Output
OutputRegisters ==
  {"AccelerationX", "AccelerationY", "AccelerationZ", "AngleX", "AngleY", "AngleZ",
   "Temperature", "SelfTest", "Status", "Error1", "Error2", "Command", "WhoAmI",
   "Serial1", "Serial2", "CurrentBank"}

\* enum Operation
Operations ==
  {Read(o) : o \in OutputRegisters} \cup {ChangeMode(m) : m \in Modes}
    \cup {SwitchBank(b) : b \in Banks} \cup {EnableAngleOutputs, OpPowerDown, OpWakeUp, Reset}

\* The frames return_status and data are applied to: every byte 0, with a few
\* values of the other bytes.
ResponseFrames ==
  {<<a, b, c, d>> : a \in 0..255, b \in {0, 1, 255}, c \in {0, 18, 255}, d \in {0, 169}}

\* frame.return_status(); "unreachable" is the abort of unreachable!()
ReturnStatus ==
  /\ input.fn = "frame" /\ output = NotApplied
  /\ output' = [fn |-> "return_status", val |-> return_status(input.arg)]
  /\ UNCHANGED <<input, kept, session, call, ghost, locals, rdr>>

\* frame.data()
Data ==
  /\ input.fn = "frame" /\ output = NotApplied
  /\ output' = [fn |-> "data", val |-> data(input.arg)]
  /\ UNCHANGED <<input, kept, session, call, ghost, locals, rdr>>

\* operation.to_frame()
ToFrame ==
  /\ input.fn = "to_frame" /\ output = NotApplied
  /\ output' = [fn |-> "to_frame", frame |-> to_frame(input.arg)]
  /\ UNCHANGED <<input, kept, session, call, ghost, locals, rdr>>

FrameInit ==
  /\ NewSession
  /\ \/ input \in {Apply("crc8", b) : b \in Crc8Inputs}
     \/ input \in {Apply("to_frame", o) : o \in Operations}
     \/ input \in {Apply("frame", f) : f \in ResponseFrames}
  /\ output = NotApplied

FrameNext ==
  \/ Crc8
  \/ ToFrame
  \/ ReturnStatus
  \/ Data
  \/ \E i \in 0..31 : CheckFlipped(i)

FrameSpec == FrameInit /\ [][FrameNext]_vars

(***************************************************************************)
(* output.rs, measurement_mode.rs: the functions of the values applied on   *)
(* their own                                                               *)
(***************************************************************************)
\* `as i16` on a u16
as_i16(v) == IF v >= 32768 THEN v - 65536 ELSE v

\* MeasurementMode::self_test_thresholds: the RangeInclusive as (start, end)
self_test_thresholds(m) ==
  CASE m = "FullScale12" -> <<0 - 1800, 1800>>
    [] m = "FullScale24" -> <<0 - 900, 900>>
    [] m \in {"Inclination", "InclinationLowNoise"} -> <<0 - 3600, 3600>>

\* A contains that leaves the end of the range out.
contains_half_open(range, item) == range[1] <= item /\ item < range[2]

\* RangeInclusive::contains
contains(range, item) == range[1] <= item /\ item <= range[2]

\* SelfTest::is_within_thresholds
is_within_thresholds(st) == contains(self_test_thresholds(st.mode), as_i16(st.sto))

\* Every SelfTest value.
SelfTests == [sto : 0..65535, mode : Modes]

\* self_test.is_within_thresholds()
IsWithinThresholds ==
  /\ input.fn = "self_test" /\ output = NotApplied
  /\ output' = [fn |-> "is_within_thresholds", val |-> is_within_thresholds(input.arg)]
  /\ UNCHANGED <<input, kept, session, call, ghost, locals, rdr>>

\* u16::to_be_bytes
to_be_bytes(v) == <<v \div 256, v % 256>>

\* A to_u32 with part1 as the high half.
to_u32_part1_high(s) == to_be_bytes(s.part1) \o to_be_bytes(s.part2)

\* Serial::to_u32.  The u32 is kept as the four bytes handed to
\* u32::from_be_bytes, most significant first.
to_u32(s) == to_be_bytes(s.part2) \o to_be_bytes(s.part1)

\* A u32 divided by 10, byte by byte from the most significant one: the
\* quotient (as bytes) and the remainder.
RECURSIVE divmod10(_, _, _)
divmod10(bytes, i, acc) ==
  IF i > Len(bytes) THEN acc
  ELSE LET cur == acc.rem * 256 + bytes[i]
       IN divmod10(bytes, i + 1, [quot |-> Append(acc.quot, cur \div 10), rem |-> cur % 10])

\* The decimal digits of a u32, most significant first, as core::fmt writes
\* them: at least one digit, no leading zero.
RECURSIVE decimal(_)
decimal(bytes) ==
  LET qr == divmod10(bytes, 1, [quot |-> <<>>, rem |-> 0])
  IN IF \A k \in 1..Len(qr.quot) : qr.quot[k] = 0 THEN <<qr.rem>>
     ELSE decimal(qr.quot) \o <<qr.rem>>

\* The flag 0 with a width: zeros in front up to that many digits.
zero_padded(digits, width) ==
  IF Len(digits) >= width THEN digits
  ELSE [k \in 1..(width - Len(digits)) |-> 0] \o digits

DigitChars == <<"0", "1", "2", "3", "4", "5", "6", "7", "8", "9">>

\* Display for Serial: write!(f, "{:010}B33", self.to_u32()), as the characters written.
to_string(s) ==
  LET digits == zero_padded(decimal(to_u32(s)), 10)
  IN [k \in 1..Len(digits) |-> DigitChars[digits[k] + 1]] \o <<"B", "3", "3">>

\* The halves of the serial numbers: 0, 0xFFFF, the halves of the test
\* example, of 10^8, 10^9 and 10^9 - 1, and values around the byte and sign limits.
SerialParts ==
  {0, 1, 9, 10, 255, 256, 1525, 9999, 15258, 15589, 32767, 32768, 51711, 51712,
   57600, 63450, 65535}

Serials == [part1 : SerialParts, part2 : SerialParts]

\* serial.to_u32()
ToU32 ==
  /\ input.fn = "serial" /\ output = NotApplied
  /\ output' = [fn |-> "to_u32", val |-> to_u32(input.arg)]
  /\ UNCHANGED <<input, kept, session, call, ghost, locals, rdr>>

\* serial.to_string()
Display ==
  /\ input.fn = "serial" /\ output = NotApplied
  /\ output' = [fn |-> "to_string", val |-> to_string(input.arg)]
  /\ UNCHANGED <<input, kept, session, call, ghost, locals, rdr>>

\* Inclination::FACTOR: (1 << 14) as f32
FACTOR == 16384

\* A raw_to_degrees that reads the raw value as an i16 first.
raw_to_degrees_signed(raw) == [num |-> as_i16(raw) * 90, den |-> FACTOR]

\* Inclination::raw_to_degrees: raw as f32 / FACTOR * 90.0.  The f32 is kept
\* as the fraction num / den.  No step rounds: a u16 is an f32 as it is, the
\* division by 2^14 changes the exponent only, and raw * 90 < 2^24 fits the
\* 24 bits of the significand.
raw_to_degrees(raw) == [num |-> raw * 90, den |-> FACTOR]

\* inclination.x_degrees(), y_degrees(), z_degrees(): raw_to_degrees of the field
Degrees ==
  /\ input.fn = "inclination" /\ output = NotApplied
  /\ output' = [fn |-> "raw_to_degrees", val |-> raw_to_degrees(input.arg)]
  /\ UNCHANGED <<input, kept, session, call, ghost, locals, rdr>>

OutputInit ==
  /\ NewSession
  /\ output = NotApplied
  /\ \/ input \in {Apply("self_test", st) : st \in SelfTests}
     \/ input \in {Apply("serial", s) : s \in Serials}
     \/ input \in {Apply("inclination", raw) : raw \in 0..65535}

OutputNext ==
  \/ IsWithinThresholds
  \/ ToU32
  \/ Display
  \/ Degrees

OutputSpec == OutputInit /\ [][OutputNext]_vars

(***************************************************************************)
(* Properties.  They read the record of the transactions of the operation  *)
(* called last (log), what it returned (result) and the values it filled.  *)
(***************************************************************************)
Returned == phase = "returned"

Succeeded == Returned /\ result = "Ok"

\* read with its OffFrameRead outputs, or a chain of Reader calls.
ReadSequence == op \in {"read", "reader"}

\* The transactions of the record that request a register.
RegisterRequests == {i \in 1..Len(log) : log[i].operation.op = "Read"}

\* What a slot keeps of a 16-bit payload: the 8-bit component id keeps the low
\* byte, every other slot the payload.
Held(slot, payload) == IF slot[2] = "id" THEN payload % 256 ELSE payload

SlotValue(slot) == vals[slot[1]][slot[2]]

\* The slots of a value: its fields but the type and the captured mode.
ValueFields(v) == DOMAIN v \ {"kind", "mode"}

Outputs == {req[i] : i \in 1..Len(req)}

\* C1: off-frame pipeline.  After a successful read or Reader chain the slot of
\* every register request holds the payload of the response to the transaction
\* issued right after the request, and the payload of the response to the
\* first transaction is in no slot.
C1_OffFramePipeline ==
  (Succeeded /\ ReadSequence) =>
    /\ \A i \in RegisterRequests :
         /\ i < Len(log)
         /\ SlotValue(log[i].slot) = Held(log[i].slot, data(log[i + 1].resp.frame))
    /\ log # <<>> =>
         \A j \in 1..Len(vals) : \A f \in ValueFields(vals[j]) :
           vals[j][f] # Held(<<j, f>>, data(log[1].resp.frame))

\* A successful read of a tuple with a bank switch between two register requests.
C1_Witness ==
  /\ Succeeded /\ op = "read" /\ req = <<"Temperature", "Serial">>
  /\ log[2].operation = SwitchBank("One")

\* C2: finalization.  A successful read sequence with at least one register
\* request ends with one transaction after the last request, that transaction
\* is SwitchBank(Zero) and its response fills the slot of the last request;
\* read ends so whatever it read, and a Reader with no call chained returns
\* from finish without a transaction.
C2_Finalization ==
  /\ (Succeeded /\ ReadSequence /\ RegisterRequests # {}) =>
       LET n == Len(log)
       IN /\ log[n].operation = SwitchBank("Zero")
          /\ log[n].req = <<\hFC, \h00, \h00, \h73>>
          /\ (n - 1) \in RegisterRequests
          /\ SlotValue(log[n - 1].slot) = Held(log[n - 1].slot, data(log[n].resp.frame))
  /\ (Succeeded /\ op = "read") =>
       /\ RegisterRequests # {}
       /\ log[Len(log)].operation = SwitchBank("Zero")
  /\ (Returned /\ op = "reader" /\ req = <<>>) => (log = <<>> /\ result = "Ok")

\* A successful read that asked for no register of bank One.
C2_Witness ==
  /\ Succeeded /\ op = "read" /\ req = <<"Temperature">>
  /\ Len(log) = 2

\* The ChangeMode constants of the frame table.
C3_ChangeModeBytes(m) ==
  CASE m = "FullScale12"         -> <<\hB4, \h00, \h00, \h1F>>
    [] m = "FullScale24"         -> <<\hB4, \h00, \h01, \h02>>
    [] m = "Inclination"         -> <<\hB4, \h00, \h02, \h25>>
    [] m = "InclinationLowNoise" -> <<\hB4, \h00, \h03, \h38>>

\* C3: a start_up(m) that succeeded issued six transactions and no other:
\* Reset, ChangeMode(m), EnableAngleOutputs and Read(Status) three times, with
\* the request bytes of the frame table.
C3_StartUpSequence ==
  (Succeeded /\ op = "start_up") =>
    /\ arg \in Modes
    /\ [i \in 1..Len(log) |-> log[i].req] =
         << <<\hB4, \h00, \h20, \h98>>,
            C3_ChangeModeBytes(arg),
            <<\hB0, \h00, \h1F, \h6F>>,
            <<\h18, \h00, \h00, \hE5>>,
            <<\h18, \h00, \h00, \hE5>>,
            <<\h18, \h00, \h00, \hE5>> >>
    /\ [i \in 1..Len(log) |-> log[i].operation] =
         <<Reset, ChangeMode(arg), EnableAngleOutputs,
           Read("Status"), Read("Status"), Read("Status")>>

\* start_up(Inclination) has succeeded.
C3_Witness == Succeeded /\ op = "start_up" /\ arg = "Inclination" /\ state = "Normal"

\* The third Status read of start_up has been answered with a frame.
ThirdStatusAnswered == op = "start_up" /\ Returned /\ Len(log) = 6 /\ log[6].resp.ok

\* C4 as stated: the return status of the response to the third Status read
\* alone decides the outcome of start_up.
C4_StatusAloneDecides ==
  /\ (op = "start_up" /\ Succeeded) =>
       (ThirdStatusAnswered /\ return_status(log[6].resp.frame) = "NormalOperation")
  /\ ThirdStatusAnswered =>
       /\ return_status(log[6].resp.frame) = "StartupInProgress" => result = "Startup"
       /\ return_status(log[6].resp.frame) = "Error" => result = "ReturnStatus"

\* C4: start_up returns a Normal session only if the response to the third
\* Status read decodes as NormalOperation; if that response has a valid CRC,
\* the status StartupInProgress gives the Startup error and the status Error
\* the ReturnStatus error.
C4_StartUpOutcome ==
  /\ (op = "start_up" /\ Succeeded) =>
       (ThirdStatusAnswered /\ return_status(log[6].resp.frame) = "NormalOperation")
  /\ (ThirdStatusAnswered /\ check_crc(log[6].resp.frame).tag = "Ok") =>
       /\ return_status(log[6].resp.frame) = "StartupInProgress" => result = "Startup"
       /\ return_status(log[6].resp.frame) = "Error" => result = "ReturnStatus"

\* start_up failed on a third Status response that is still starting up.
C4_Witness ==
  /\ ThirdStatusAnswered /\ result = "Startup"
  /\ return_status(log[6].resp.frame) = "StartupInProgress"

C6_OperationsByState ==
  /\ (phase = "running" /\ op \in {"read", "reader", "power_down"}) => state = "Normal"
  /\ (phase = "running" /\ op = "start_up") => state = "Uninitialized"
  /\ (phase = "running" /\ op = "wake_up") => state = "PowerDown"
  /\ ReadSequence => \A i \in 1..Len(log) : log[i].st = "Normal"
  /\ \A i \in 1..Len(log) :
       /\ op = "power_down" => log[i].st = "Normal"
       /\ op = "start_up" => log[i].st = "Uninitialized"
       /\ op = "wake_up" => log[i].st = "PowerDown"

\* A read has issued a register request.
C6_Witness == phase = "running" /\ op = "read" /\ RegisterRequests # {}

\* C7: the session is in one of the three states; the state changes from
\* Uninitialized to Normal in start_up, from Normal to PowerDown in power_down
\* and from PowerDown to Normal in wake_up and in no other way; a read
\* sequence changes neither the state nor the mode.
C7_StateChanges ==
  [][ /\ state' \in {"Uninitialized", "Normal", "PowerDown"}
      /\ state' # state =>
           \/ state = "Uninitialized" /\ state' = "Normal" /\ op = "start_up"
           \/ state = "Normal" /\ state' = "PowerDown" /\ op = "power_down"
           \/ state = "PowerDown" /\ state' = "Normal" /\ op = "wake_up"
      /\ state' = "Uninitialized" => state = "Uninitialized"
      /\ (ReadSequence \/ ReadSequence') => UNCHANGED <<state, mode>>
    ]_vars

\* A session that went through all three states: wake_up has succeeded.
C7_Witness == op = "wake_up" /\ Succeeded /\ state = "Normal"

\* The bank of the last SwitchBank of the record.
LastSwitchBank ==
  LET switches == {i \in 1..Len(log) : log[i].operation.op = "SwitchBank"}
  IN log[CHOOSE i \in switches : \A j \in switches : j <= i].operation.arg

\* C8: bank restoration.  When a read sequence that read Serial has returned
\* successfully, the bank selected on the device, which is the bank of the
\* last SwitchBank issued, is Zero, and every read sequence starts with the
\* tracked bank Zero.
C8_BankRestored ==
  /\ (Succeeded /\ ReadSequence /\ "Serial" \in Outputs) =>
       /\ device_bank = "Zero"
       /\ LastSwitchBank = "Zero"
  /\ (ReadSequence /\ phase = "running" /\ log = <<>>) => current_bank = "Zero"

\* A Reader chain that read Serial has returned successfully.
C8_Witness == Succeeded /\ op = "reader" /\ "Serial" \in Outputs

SerialRegisters == {"Serial1", "Serial2"}

\* C9: every Read(Serial1) and Read(Serial2) of a read sequence is issued
\* with the tracked bank One; SwitchBank(One) is issued with the tracked bank
\* Zero only, so none is issued when the bank is One already, and Read(Serial1)
\* comes straight after it or after the register requests of a Serial before it.
C9_SerialInBankOne ==
  ReadSequence =>
    \A i \in 1..Len(log) :
      /\ (log[i].operation.op = "Read" /\ log[i].operation.arg \in SerialRegisters) =>
           log[i].bank = "One"
      /\ log[i].operation = SwitchBank("One") => log[i].bank = "Zero"
      /\ log[i].operation = Read("Serial1") =>
           /\ i > 1
           /\ \/ log[i - 1].operation = SwitchBank("One") /\ log[i - 1].bank = "Zero"
              \/ log[i - 1].bank = "One" /\ log[i - 1].operation.op # "SwitchBank"

\* Serial asked for twice in a row: the second one is read without a SwitchBank.
C9_Witness ==
  /\ Succeeded /\ op = "read" /\ req = <<"Serial", "Serial">>
  /\ Len(log) = 6

\* The registers the driver switches back to bank Zero for.
BankZeroRegisters == {"AngleX", "AngleY", "AngleZ", "Status", "Error1", "Error2", "WhoAmI"}

ResponseError(resp) ==
  IF ~resp.ok THEN "Spi"
  ELSE IF calculated_crc(<<resp.frame[1], resp.frame[2], resp.frame[3]>>) # resp.frame[4] THEN "Crc"
  ELSE CASE resp.frame[1] % 4 = 0 -> "Startup"
         [] resp.frame[1] % 4 = 3 -> "ReturnStatus"
         [] resp.frame[1] % 4 = 1 -> "Ok"
         [] OTHER -> "Panic"

\* C11: Reader short-circuit.  The transaction whose response failed (CRC,
\* transport or return status) is the last one of a Reader chain: the calls
\* chained after it and finish issue none, and finish returns the error of
\* that transaction.
C11_ReaderShortCircuit ==
  op = "reader" =>
    /\ \A i \in 1..(Len(log) - 1) : ResponseError(log[i].resp) = "Ok"
    /\ error # "Ok" =>
         /\ log # <<>>
         /\ ResponseError(log[Len(log)].resp) = error
    /\ (log # <<>> /\ ResponseError(log[Len(log)].resp) \in {"Spi", "Crc", "Startup", "ReturnStatus"}) =>
         \/ error = ResponseError(log[Len(log)].resp)
         \/ Returned /\ result = ResponseError(log[Len(log)].resp)
    /\ (Returned /\ error # "Ok") => result = error

\* The first transaction of a chain failed its CRC check, a second method was
\* chained after it and finish returned the checksum error.
C11_Witness ==
  /\ Returned /\ op = "reader" /\ result = "Crc"
  /\ req = <<"Acceleration", "Serial">> /\ Len(log) = 1

\* C12: no silent degradation.  read returns a value only if every response of
\* the read, the one to the final SwitchBank(Zero) included, had a valid CRC
\* and the NormalOperation status; a response that fails a check, or a failed
\* transport, ends the read with the error of that response and no value.
C12_NoSilentDegradation ==
  op = "read" =>
    /\ Succeeded =>
         /\ log # <<>>
         /\ \A i \in 1..Len(log) : ResponseError(log[i].resp) = "Ok"
         /\ Len(vals) = Len(req)
    /\ \A i \in 1..Len(log) :
         ResponseError(log[i].resp) # "Ok" =>
           /\ i = Len(log)
           /\ Returned
           /\ result = ResponseError(log[i].resp)
           /\ vals = <<>>

\* The response to the final SwitchBank(Zero) of a read had a wrong CRC.
C12_Witness ==
  /\ Returned /\ op = "read" /\ result = "Crc" /\ req = <<"Temperature">>
  /\ Len(log) = 2 /\ log[2].operation = SwitchBank("Zero")

\* A transaction that failed: its transport failed, or its response failed a
\* check of transfer (write makes no check of the response).
FailedTransfer(entry) ==
  IF entry.fn = "write" THEN ~entry.resp.ok ELSE ResponseError(entry.resp) # "Ok"

IsPrefix(s, t) == Len(s) <= Len(t) /\ \A i \in 1..Len(s) : s[i] = t[i]

\* The registers of each output, in the order they are asked for.
RegistersOf(kind) ==
  CASE kind = "Acceleration" -> <<"AccelerationX", "AccelerationY", "AccelerationZ">>
    [] kind = "Inclination"  -> <<"AngleX", "AngleY", "AngleZ">>
    [] kind = "Temperature"  -> <<"Temperature">>
    [] kind = "SelfTest"     -> <<"SelfTest">>
    [] kind = "ComponentId"  -> <<"WhoAmI">>
    [] kind = "Serial"       -> <<"Serial1", "Serial2">>
    [] kind = "Status"       -> <<"Status">>
    [] kind = "Error1"       -> <<"Error1">>
    [] kind = "Error2"       -> <<"Error2">>

RECURSIVE RegistersOfAll(_)
RegistersOfAll(kinds) ==
  IF kinds = <<>> THEN <<>> ELSE RegistersOf(Head(kinds)) \o RegistersOfAll(Tail(kinds))

\* The registers the record asked for, in order.
RECURSIVE RegistersRead(_)
RegistersRead(entries) ==
  IF entries = <<>> THEN <<>>
  ELSE IF Head(entries).operation.op = "Read"
       THEN <<Head(entries).operation.arg>> \o RegistersRead(Tail(entries))
       ELSE RegistersRead(Tail(entries))

\* The operations of start_up(m), in order.
StartUpOperations(m) ==
  <<Reset, ChangeMode(m), EnableAngleOutputs, Read("Status"), Read("Status"), Read("Status")>>

\* C13: no internal retry.  In start_up, wake_up, power_down and read the
\* transaction that failed is the last one and the operation has returned an
\* error; the transactions issued are a prefix of the sequence of the
\* operation, so no request is sent again: at most 6 for start_up, at most 7
\* for wake_up, exactly 1 for power_down, and for read each register of the
\* outputs once, with no SwitchBank right after a SwitchBank.
C13_NoInternalRetry ==
  op \in {"start_up", "wake_up", "power_down", "read"} =>
    /\ \A i \in 1..Len(log) :
         FailedTransfer(log[i]) => (i = Len(log) /\ Returned /\ result # "Ok")
    /\ op = "start_up" =>
         /\ Len(log) <= 6
         /\ IsPrefix([i \in 1..Len(log) |-> log[i].operation], StartUpOperations(arg))
    /\ op = "wake_up" =>
         /\ Len(log) <= 7
         /\ IsPrefix([i \in 1..Len(log) |-> log[i].operation],
                     <<OpWakeUp>> \o StartUpOperations(arg))
    /\ op = "power_down" =>
         /\ Len(log) <= 1
         /\ Returned => (Len(log) = 1 /\ log[1].operation = OpPowerDown)
    /\ op = "read" =>
         /\ IsPrefix(RegistersRead(log), RegistersOfAll(req))
         /\ \A i \in 1..(Len(log) - 1) :
              ~(log[i].operation.op = "SwitchBank" /\ log[i + 1].operation.op = "SwitchBank")

\* wake_up has returned the transport error of its third transaction.
C13_Witness == Returned /\ op = "wake_up" /\ result = "Spi" /\ Len(log) = 3

\* C14: after start_up has returned an error the caller can call start_up
\* again: the Uninitialized session, or the transport to build one from, is
\* still with the caller.
C14_StartUpAgain ==
  (Returned /\ op = "start_up" /\ result \in {"Spi", "Crc", "Startup", "ReturnStatus"}) =>
    /\ state = "Uninitialized"
    /\ spi \in {"session", "caller"}

\* C15: a wake_up(m) that succeeded was called on a PowerDown session, issued
\* WakeUp (B4 00 00 1F) with a wait of at least 1 ms and then the six
\* transactions of start_up(m), and left the session Normal with mode m,
\* whatever the mode was before power_down.
C15_WakeUp ==
  /\ (op = "wake_up" /\ log # <<>>) =>
       /\ log[1].req = <<\hB4, \h00, \h00, \h1F>>
       /\ log[1].delay >= 1000000
       /\ log[1].st = "PowerDown"
  /\ (Succeeded /\ op = "wake_up") =>
       /\ arg \in Modes
       /\ [i \in 1..Len(log) |-> log[i].req] =
            << <<\hB4, \h00, \h00, \h1F>>,
               <<\hB4, \h00, \h20, \h98>>,
               C3_ChangeModeBytes(arg),
               <<\hB0, \h00, \h1F, \h6F>>,
               <<\h18, \h00, \h00, \hE5>>,
               <<\h18, \h00, \h00, \hE5>>,
               <<\h18, \h00, \h00, \hE5>> >>
       /\ state = "Normal"
       /\ mode = arg

\* A session that slept in Inclination mode woke up in FullScale24.
C15_Witness ==
  /\ Succeeded /\ op = "wake_up" /\ arg = "FullScale24" /\ mode = "FullScale24"
  /\ previous_mode = "Inclination"

\* C16: power_down issues one transaction, the PowerDown frame (B4 00 04 6B),
\* and the session is PowerDown afterwards exactly if the response had a
\* valid CRC and the NormalOperation status; otherwise power_down returns the
\* error of the response and there is no PowerDown session.
C16_PowerDown ==
  op = "power_down" =>
    /\ Len(log) <= 1
    /\ log # <<>> =>
         /\ Returned
         /\ log[1].req = <<\hB4, \h00, \h04, \h6B>>
         /\ log[1].fn = "transfer"
         /\ result = ResponseError(log[1].resp)
         /\ (state = "PowerDown" /\ spi = "session") <=> ResponseError(log[1].resp) = "Ok"
         /\ ResponseError(log[1].resp) # "Ok" => (state = "Normal" /\ spi = "dropped")
    /\ Returned => log # <<>>

\* power_down has failed on a response with the Error status.
C16_Witness ==
  /\ Returned /\ op = "power_down" /\ result = "ReturnStatus"
  /\ state = "Normal" /\ spi = "dropped"

\* C17: minimum delay floor.  Every transaction of the record, of whatever
\* operation and in whatever state, sends 4 bytes and is followed by a delay
\* of at least 10,000 ns; the transactions with no wait of their own have
\* exactly that delay.
C17_DelayFloor ==
  \A i \in 1..Len(log) :
    /\ Len(log[i].req) = 4
    /\ \A j \in 1..4 : log[i].req[j] \in 0..255
    /\ log[i].delay >= 10000
    /\ log[i].operation.op \in {"Read", "SwitchBank", "PowerDown", "ChangeMode"} =>
         log[i].delay = 10000

\* A read has issued a register request, with the minimum delay.
C17_Witness ==
  /\ op = "read" /\ Len(log) >= 2
  /\ log[1].operation.op = "Read" /\ log[1].delay = 10000

\* The settle time after EnableAngleOutputs, in nanoseconds.
C18_SettleTime(m) ==
  CASE m = "FullScale12"         -> 25000000
    [] m = "FullScale24"         -> 15000000
    [] m = "Inclination"         -> 100000000
    [] m = "InclinationLowNoise" -> 100000000

\* C18: in the start-up sequence (of start_up and of wake_up) Reset is
\* followed by a delay of at least 1 ms, EnableAngleOutputs by 25 ms for
\* FullScale12, 15 ms for FullScale24 and 100 ms for the two inclination
\* modes, ChangeMode and the three Status reads by the minimum of 10 us.
C18_SettleTimes ==
  op \in {"start_up", "wake_up"} =>
    \A i \in 1..Len(log) :
      /\ log[i].operation = Reset => log[i].delay >= 1000000
      /\ log[i].operation = EnableAngleOutputs => log[i].delay = C18_SettleTime(arg)
      /\ log[i].operation = ChangeMode(arg) => log[i].delay = 10000
      /\ log[i].operation = Read("Status") => log[i].delay = 10000

\* start_up(FullScale24) has succeeded, with 15 ms after EnableAngleOutputs.
C18_Witness ==
  /\ Succeeded /\ op = "start_up" /\ arg = "FullScale24"
  /\ log[3].operation = EnableAngleOutputs /\ log[3].delay = 15000000

\* C19: a session of any state that is not in the middle of an operation can
\* be released; release hands the transport to the caller without a
\* transaction and without a change of anything else, the session is over
\* (no operation is possible afterwards), and the caller has the transport
\* back through release only.
C19_Release ==
  /\ spi \in {"session", "caller", "dropped"}
  /\ (spi = "session" /\ phase = "idle") => ENABLED Release
  /\ spi = "caller" =>
       /\ op = "release"
       /\ phase = "idle"
       /\ log = <<>>
       /\ ~ENABLED Next
  /\ phase = "running" => spi = "session"

\* A PowerDown session has been released.
C19_Witness == spi = "caller" /\ op = "release" /\ state = "PowerDown"

\* The bits of a byte, most significant first, and back.
BitWeights == <<128, 64, 32, 16, 8, 4, 2, 1>>

BitsOf(n) == [i \in 1..8 |-> (n \div BitWeights[i]) % 2]

RECURSIVE ByteOf(_, _)
ByteOf(bits, i) == IF i > 8 THEN 0 ELSE bits[i] * BitWeights[i] + ByteOf(bits, i + 1)

\* One step of the division by the polynomial 0x1D for one message bit: the
\* register is shifted by one place (modulo 256) and the polynomial is added
\* if the bit shifted out differs from the message bit.
CrcBit(reg, bit) ==
  LET shifted == [i \in 1..8 |-> IF i < 8 THEN reg[i + 1] ELSE 0]
  IN IF reg[1] # bit
     THEN [i \in 1..8 |-> (shifted[i] + BitsOf(29)[i]) % 2]
     ELSE shifted

RECURSIVE CrcBits(_, _, _)
CrcBits(reg, bits, i) ==
  IF i > Len(bits) THEN reg ELSE CrcBits(CrcBit(reg, bits[i]), bits, i + 1)

\* CRC-8 with polynomial 0x1D, initial value 0xFF, 8 shift steps per byte and
\* the final complement.
ReferenceCrc8(b) ==
  255 - ByteOf(CrcBits(BitsOf(255), BitsOf(b[1]) \o BitsOf(b[2]) \o BitsOf(b[3]), 1), 1)

\* The frames of tests::test_crc8.
CrcExamples ==
  { <<183, 0, 2, 169>>, <<25, 0, 18, 157>>, <<25, 0, 0, 106>>,
    <<27, 0, 18, 158>>, <<24, 0, 0, 229>>, <<183, 0, 0, 147>> }

\* C20: check_crc accepts a frame exactly if its byte 3 is the CRC-8
\* (polynomial 0x1D, initial value 0xFF, final complement) of its bytes 0..2;
\* the six example frames are accepted, and a frame that is not accepted
\* gives the Crc error.
C20_CheckCrc ==
  output # "-" =>
    /\ output \in {"Ok", "Crc"}
    /\ output = "Ok" <=> input[4] = ReferenceCrc8(<<input[1], input[2], input[3]>>)
    /\ input \in CrcExamples => output = "Ok"

\* check_crc has accepted the first example frame.
C20_Witness == output = "Ok" /\ input = <<183, 0, 2, 169>>

\* C21: for a 3-byte input b the frame b followed by crc8(b) passes check_crc,
\* and that frame with any single bit inverted fails it with the Crc error.
C21_CrcRoundTrip ==
  output.fn = "crc8" =>
    /\ output.flipped = None =>
         /\ output.frame = input.arg \o <<ReferenceCrc8(input.arg)>>
         /\ output.check = "Ok"
    /\ output.flipped # None =>
         /\ output.check = "Crc"
         /\ Cardinality({k \in 1..4 : output.frame[k] # WithCrc(input.arg)[k]}) = 1

\* A frame whose last CRC bit was inverted has been rejected.
C21_Witness ==
  /\ output.fn = "crc8" /\ output.flipped = 31 /\ output.check = "Crc"
  /\ input.arg = <<183, 0, 2>>

\* C22: the frame to_frame gives for an operation is four bytes, and its
\* byte 3 is crc8 of its bytes 0..2; this holds for each of the 26 operations
\* (16 Read, EnableAngleOutputs, 4 ChangeMode, PowerDown, WakeUp, Reset, 2 SwitchBank).
C22_RequestFramesCrcValid ==
  /\ Cardinality(Operations) = 26
  /\ output.fn = "to_frame" =>
       /\ input.arg \in Operations
       /\ Len(output.frame) = 4
       /\ \A k \in 1..4 : output.frame[k] \in 0..255
       /\ output.frame[4] = crc8(<<output.frame[1], output.frame[2], output.frame[3]>>)
       /\ output.frame[4] = ReferenceCrc8(output.frame)
       /\ check_crc(output.frame) = Ok(<<>>)

\* to_frame has been applied to Reset.
C22_Witness == output.fn = "to_frame" /\ input.arg = Reset /\ output.frame[4] = 152

\* C23: the return status of a frame is given by the two least significant
\* bits of byte 0 alone (00 StartupInProgress, 01 NormalOperation, 11 Error;
\* with 10 return_status does not return), and the payload is byte 1 * 256 + byte 2.
C23_FrameDecoding ==
  /\ output.fn = "return_status" =>
       LET bits == BitsOf(input.arg[1])
           low == <<bits[7], bits[8]>>
       IN /\ low = <<0, 0>> <=> output.val = "StartupInProgress"
          /\ low = <<0, 1>> <=> output.val = "NormalOperation"
          /\ low = <<1, 1>> <=> output.val = "Error"
          /\ low = <<1, 0>> <=> output.val = "unreachable"
  /\ output.fn = "data" =>
       /\ output.val = input.arg[2] * 256 + input.arg[3]
       /\ output.val \in 0..65535
       /\ output.val \div 256 = input.arg[2] /\ output.val % 256 = input.arg[3]

\* return_status has been applied to a frame whose byte 0 has bits set above
\* the low two, which are 01.
C23_Witness ==
  /\ output.fn = "return_status" /\ output.val = "NormalOperation"
  /\ input.arg = <<253, 255, 18, 0>>

\* C24: every Acceleration and SelfTest value of a read carries the mode of
\* the session during that read; the mode of the session is the one handed to
\* the start_up or wake_up that succeeded last; a value the caller holds on to
\* was taken with the mode of the session at its read and keeps it while the
\* session is put to sleep, woken up in another mode and read again.
C24_ModeCapture ==
  /\ [](op = "read" =>
          /\ state = "Normal" /\ mode \in Modes
          /\ \A i \in 1..Len(vals) : vals[i].kind \in ModeKinds /\ vals[i].mode = mode
          /\ Succeeded => Len(vals) = Len(req))
  /\ [][/\ mode' # mode =>
             \/ mode' = "-"
             \/ op' \in {"start_up", "wake_up"} /\ result' = "Ok" /\ mode' = arg' /\ mode = "-"
        /\ kept' # kept => op = "read" /\ Succeeded /\ kept'.mode = mode /\ mode' = mode
        /\ (kept # NoValue /\ op' \in {"power_down", "wake_up", "read"}) =>
             kept'.mode = kept.mode \/ (kept' # kept /\ op = "read")
       ]_vars

\* A value read in FullScale12 is still held with that mode after power_down
\* and wake_up(Inclination), and a read after them returned values in Inclination.
C24_Witness ==
  /\ kept # NoValue /\ kept.kind = "Acceleration" /\ kept.mode = "FullScale12"
  /\ op = "read" /\ Succeeded /\ mode = "Inclination"
  /\ req = <<"SelfTest", "Acceleration">>
  /\ vals[1].mode = "Inclination" /\ vals[2].mode = "Inclination"

\* The limit of the self-test output of each mode.
SelfTestLimit(m) ==
  CASE m = "FullScale12" -> 1800
    [] m = "FullScale24" -> 900
    [] m = "Inclination" -> 3600
    [] m = "InclinationLowNoise" -> 3600

\* A 16-bit value read as a two's complement number: bit 15 weighs -32768.
Signed16(v) == (v % 32768) - 32768 * (v \div 32768)

\* C25: is_within_thresholds is true exactly if the raw value, read as a signed
\* 16-bit number, lies between -limit and +limit of the mode, both included
\* (1800 for FullScale12, 900 for FullScale24, 3600 for the inclination modes).
C25_SelfTestThresholds ==
  output.fn = "is_within_thresholds" =>
    (output.val <=> /\ 0 - SelfTestLimit(input.arg.mode) <= Signed16(input.arg.sto)
                    /\ Signed16(input.arg.sto) <= SelfTestLimit(input.arg.mode))

\* is_within_thresholds has accepted -1800 (0xF8F8) in FullScale12.
C25_Witness ==
  /\ output.fn = "is_within_thresholds" /\ output.val
  /\ input.arg = [sto |-> 63736, mode |-> "FullScale12"]

\* The number a string of decimal digits denotes, as its two 16-bit halves
\* (high, low): each digit multiplies what was read so far by ten and is added.
RECURSIVE ReadDecimal(_, _, _)
ReadDecimal(chars, k, halves) ==
  IF k > Len(chars) THEN halves
  ELSE LET d == CHOOSE n \in 0..9 : DigitChars[n + 1] = chars[k]
           low == halves[2] * 10 + d
       IN ReadDecimal(chars, k + 1, <<halves[1] * 10 + low \div 65536, low % 65536>>)

\* C26: to_u32 is part2 * 65536 + part1 (its high 16 bits are part2, its low
\* 16 bits part1); the displayed serial is 13 characters: ten decimal digits
\* that denote that number, zeros in front, then "B33".  part1 = 0xF7DA with
\* part2 = 0x3CE5 gives "1021704154B33", both zero give "0000000000B33".
C26_SerialNumber ==
  /\ output.fn = "to_u32" =>
       /\ Len(output.val) = 4
       /\ output.val[1] * 256 + output.val[2] = input.arg.part2
       /\ output.val[3] * 256 + output.val[4] = input.arg.part1
  /\ output.fn = "to_string" =>
       /\ Len(output.val) = 13
       /\ SubSeq(output.val, 11, 13) = <<"B", "3", "3">>
       /\ \A k \in 1..10 : \E n \in 0..9 : output.val[k] = DigitChars[n + 1]
       /\ ReadDecimal(SubSeq(output.val, 1, 10), 1, <<0, 0>>)
            = <<input.arg.part2, input.arg.part1>>
       /\ input.arg = [part1 |-> 63450, part2 |-> 15589] =>
            output.val = <<"1", "0", "2", "1", "7", "0", "4", "1", "5", "4", "B", "3", "3">>
       /\ input.arg = [part1 |-> 0, part2 |-> 0] =>
            output.val = <<"0", "0", "0", "0", "0", "0", "0", "0", "0", "0", "B", "3", "3">>

\* The serial of tests::test_serial has been displayed.
C26_Witness ==
  /\ output.fn = "to_string" /\ input.arg = [part1 |-> 63450, part2 |-> 15589]
  /\ output.val[1] = "1" /\ output.val[10] = "4"

\* C27 as claimed: the angle is the raw value read as a signed 16-bit number,
\* times 90 / 16384.
C27_SignedDegrees ==
  output.fn = "raw_to_degrees" =>
    /\ output.val.den = 16384
    /\ output.val.num = Signed16(input.arg) * 90

\* C27: the angle in degrees is the raw value as the unsigned 16-bit number it
\* is, times 90 / 16384: from 0 up to, not including, 360.  A raw value with
\* bit 15 set gives an angle from 180 up (0xFFE9 gives 359.87366, the angle of
\* the crate's example), not a negative one; 0x0F88 gives 21.84 to two places.
C27_UnsignedDegrees ==
  output.fn = "raw_to_degrees" =>
    /\ output.val.den = 16384
    /\ output.val.num = input.arg * 90
    /\ 0 <= output.val.num /\ output.val.num < 360 * 16384
    /\ input.arg >= 32768 <=> output.val.num >= 180 * 16384
    /\ input.arg = 3976 => (output.val.num * 100 + 8192) \div 16384 = 2184
    /\ input.arg = 65513 => (output.val.num * 100) \div 16384 = 35987

\* raw_to_degrees has been applied to 0xFFE9, the X angle of the crate's example.
C27_Witness ==
  /\ output.fn = "raw_to_degrees" /\ input.arg = 65513
  /\ output.val.num > 359 * 16384

\* The SwitchBank transfers of the record that stand between two register requests.
SwitchesBetweenRequests ==
  {j \in 2..(Len(log) - 1) :
     /\ log[j].operation.op = "SwitchBank"
     /\ log[j - 1].operation.op = "Read"
     /\ log[j + 1].operation.op = "Read"}

\* The payload is held by some slot of the values.
InSomeSlot(payload) ==
  \E j \in 1..Len(vals) : \E f \in ValueFields(vals[j]) : vals[j][f] = Held(<<j, f>>, payload)

\* C28: in a successful read sequence with a SwitchBank transfer between two
\* register requests, the response to the SwitchBank fills the slot of the
\* request before it, and the response to the request right after it (the
\* answer to the SwitchBank itself) is in no slot.
C28_BankSwitchSlot ==
  (Succeeded /\ ReadSequence) =>
    \A j \in SwitchesBetweenRequests :
      /\ SlotValue(log[j - 1].slot) = Held(log[j - 1].slot, data(log[j].resp.frame))
      /\ log[j].slot = NoPtr
      /\ ~InSomeSlot(data(log[j + 1].resp.frame))
      /\ SlotValue(log[j + 1].slot) = Held(log[j + 1].slot, data(log[j + 2].resp.frame))

\* A successful Reader chain that switched to bank One after reading the temperature.
C28_Witness ==
  /\ Succeeded /\ op = "reader" /\ req = <<"Temperature", "Serial">>
  /\ SwitchesBetweenRequests = {2}

\* Some slots of the destination were written by the Reader and some were not.
PartiallyFilled(v) ==
  /\ \E f \in ValueFields(v) : v[f] = Unwritten
  /\ \E f \in ValueFields(v) : v[f] # Unwritten

\* With an error recorded by the transaction issued last, every slot that was
\* written holds the response to a transaction before that one.
NoWriteAfterError ==
  \A j \in 1..Len(vals) : \A f \in ValueFields(vals[j]) :
    vals[j][f] # Unwritten =>
      \E i \in 1..(Len(log) - 2) :
        /\ log[i].slot = <<j, f>>
        /\ vals[j][f] = Held(<<j, f>>, data(log[i + 1].resp.frame))

\* C29: once a transfer of a Reader chain has failed, no destination of the
\* chain is partially filled (some of its slots written by the chain, others
\* not), and no slot is written after the error was recorded.
C29_NoPartialFills ==
  (op = "reader" /\ error # "Ok") =>
    /\ \A j \in 1..Len(vals) : ~PartiallyFilled(vals[j])
    /\ NoWriteAfterError

\* What the transfer issued last came to: the error the operation returned or
\* the Reader recorded, "Ok" if the operation went on or returned Ok.
LastOutcome ==
  IF Returned /\ result # "Ok" THEN result
  ELSE IF error # "Ok" THEN error
  ELSE "Ok"

\* C30: the order of the checks of one validated transfer.  A transport
\* failure gives the Spi error and nothing else does; a response with a wrong
\* CRC gives the Crc error whatever its status bits are; the Startup and the
\* ReturnStatus error are given only for a response with a valid CRC, by its
\* status bits 00 and 11, and a transfer succeeds only with a valid CRC and
\* the status bits 01.
C30_CheckOrder ==
  (log # <<>> /\ log[Len(log)].fn = "transfer") =>
    LET resp == log[Len(log)].resp
        crc_valid == resp.frame[4] = ReferenceCrc8(resp.frame)
        low == <<BitsOf(resp.frame[1])[7], BitsOf(resp.frame[1])[8]>>
    IN /\ LastOutcome = "Spi" <=> ~resp.ok
       /\ LastOutcome = "Crc" <=> (resp.ok /\ ~crc_valid)
       /\ LastOutcome = "Startup" <=> (resp.ok /\ crc_valid /\ low = <<0, 0>>)
       /\ LastOutcome = "ReturnStatus" <=> (resp.ok /\ crc_valid /\ low = <<1, 1>>)
       /\ LastOutcome = "Ok" <=> (resp.ok /\ crc_valid /\ low = <<0, 1>>)

\* A transfer of a read was answered with the Error status and a wrong CRC,
\* and the read returned the Crc error.
C30_Witness ==
  /\ Returned /\ op = "read" /\ result = "Crc"
  /\ log[Len(log)].fn = "transfer"
  /\ log[Len(log)].resp = SpiOk(BadCrc(ErrorFrame))

\* The calls of the sequence that is running or has returned.
StartUpProgram == IF op = "wake_up" THEN wake_up(arg) ELSE start_up_inner(arg)

\* C31: in start_up and wake_up the answers to the transfers before the last
\* Status read do not decide anything: a write that the transport delivered is
\* followed by the next call whatever status or CRC its answer had; a sequence
\* that ends before its last call ends with the Spi error; and once the last
\* Status read was answered, the sequence succeeds exactly if that answer has
\* a valid CRC and the status NormalOperation.
C31_EarlierStatusIgnored ==
  (op \in {"start_up", "wake_up"} /\ log # <<>>) =>
    LET n == Len(log)
        last == log[n]
    IN /\ (last.fn = "write" /\ last.resp.ok) =>
            /\ phase = "running" /\ pc = n + 1 /\ n < Len(StartUpProgram)
       /\ (Returned /\ n < Len(StartUpProgram)) =>
            /\ result = "Spi" /\ ~last.resp.ok
       /\ (n = Len(StartUpProgram) /\ last.resp.ok) =>
            /\ last.fn = "transfer" /\ Returned
            /\ result = "Ok" <=>
                 /\ last.resp.frame[4] = ReferenceCrc8(last.resp.frame)
                 /\ BitsOf(last.resp.frame[1])[7] = 0 /\ BitsOf(last.resp.frame[1])[8] = 1

\* wake_up succeeded although the answer to its first transfer (WakeUp) had a
\* valid CRC and a status other than NormalOperation.
C31_Witness ==
  /\ op = "wake_up" /\ Succeeded /\ state = "Normal"
  /\ bad_status_at = 1 /\ bad_crc_at = 0

\* C32: when a read or a Reader chain begins (it has been called and has
\* issued no transaction yet), the bank selected on the device is Bank::Zero,
\* the bank the driver takes as current.
C32_DeviceBankZeroAtRead ==
  (ReadSequence /\ phase = "running" /\ log = <<>>) =>
    (current_bank = "Zero" /\ device_bank = "Zero")

\* C33: a validated transfer is total.  Whatever frame answers it, the
\* transfer hands its caller the frame or one of the errors Startup,
\* ReturnStatus, Crc and Spi; it never takes the program down.
C33_TransferTotal ==
  (log # <<>> /\ log[Len(log)].fn = "transfer") =>
    LastOutcome \in {"Ok", "Startup", "ReturnStatus", "Crc", "Spi"}

\* The operations of a read, worked out from the requests of its outputs and
\* the bank the one before left selected.
RECURSIVE ReadOperations(_, _)
ReadOperations(requests, bank) ==
  IF requests = <<>> THEN <<SwitchBank("Zero")>>
  ELSE LET q        == Head(requests)
           required == IF q.bank = "-" THEN bank ELSE q.bank
       IN (IF required # bank THEN <<SwitchBank(required)>> ELSE <<>>)
            \o <<Read(q.out)>> \o ReadOperations(Tail(requests), required)

RECURSIVE RequestsOfAll(_)
RequestsOfAll(kinds) ==
  IF kinds = <<>> THEN <<>> ELSE start_read(Head(kinds)) \o RequestsOfAll(Tail(kinds))

\* The request frames and the delays of read::<v>(), from v alone.
ReadTransactions(v) ==
  LET operations == ReadOperations(RequestsOfAll(v), "Zero")
  IN [i \in 1..Len(operations) |-> Transaction(operations[i], None)]

\* What the record says was sent.
Sent == [i \in 1..Len(log) |-> [req |-> log[i].req, delay |-> log[i].delay]]

\* C34: request determinism.  In a read whose transfers have all succeeded so
\* far, the request frames sent and the delays are the first ones of a sequence
\* that is fixed by the outputs asked for, and all of it once the read has
\* returned, whatever payloads the responses carried.
C34_RequestDeterminism ==
  (op = "read" /\ \A i \in 1..Len(log) : ~FailedTransfer(log[i])) =>
    /\ IsPrefix(Sent, ReadTransactions(req))
    /\ Succeeded => Sent = ReadTransactions(req)

C34_Witness ==
  /\ op = "read" /\ Succeeded /\ req = <<"Serial", "Inclination">>
  /\ \E i \in 1..Len(log) : log[i].resp.frame = HighFrame
  /\ \E i \in 1..Len(log) : log[i].resp.frame = NormalFrame(i)
  /\ vals[2].z = 65513

====
